---- MODULE Spec2Model ----
(***************************************************************************)
(* Field-format validators of aries_cloudagent/messaging/valid.py.         *)
(*                                                                         *)
(* A Python str is a sequence of one-character strings, a Python int is a  *)
(* pair (hi, lo) standing for hi * 65536 + lo (Python ints are unbounded,  *)
(* and the interesting values sit at 2^31), None is the value None below.  *)
(* A regular expression is a tree; Ends computes what re.match computes.   *)
(***************************************************************************)
EXTENDS Integers, Sequences, FiniteSets, TLC

VARIABLES clock, catalog, call

vars == <<clock, catalog, call>>

----------------------------------------------------------------------------
(* Bounds of the model. *)

\* number of concurrent callers of the validators
NumCallers == 2

\* how far around the nominal length of a value the inputs are stretched
MaxExtra == 2

Callers == 1..NumCallers

----------------------------------------------------------------------------
(* Characters. *)

Digits == {"0", "1", "2", "3", "4", "5", "6", "7", "8", "9"}

Lower == {"a", "b", "c", "d", "e", "f", "g", "h", "i", "j", "k", "l", "m",
          "n", "o", "p", "q", "r", "s", "t", "u", "v", "w", "x", "y", "z"}

Upper == {"A", "B", "C", "D", "E", "F", "G", "H", "I", "J", "K", "L", "M",
          "N", "O", "P", "Q", "R", "S", "T", "U", "V", "W", "X", "Y", "Z"}

NL == "\n"

\* every character an input of the model is made of
Alphabet == Digits \cup Lower \cup Upper \cup
            {"+", "/", "=", ":", ".", "-", " ", "_", "<", ">", NL}

\* base58.alphabet
B58 == {"1", "2", "3", "4", "5", "6", "7", "8", "9",
        "A", "B", "C", "D", "E", "F", "G", "H", "J", "K", "L", "M", "N",
        "P", "Q", "R", "S", "T", "U", "V", "W", "X", "Y", "Z",
        "a", "b", "c", "d", "e", "f", "g", "h", "i", "j", "k",
        "m", "n", "o", "p", "q", "r", "s", "t", "u", "v", "w", "x", "y", "z"}

None == <<"None">>

----------------------------------------------------------------------------
(* Python integers as (hi, lo), lo in 0..65535. *)

Int2(h, l) == [hi |-> h, lo |-> l]

IntLt(a, b) == a.hi < b.hi \/ (a.hi = b.hi /\ a.lo < b.lo)

----------------------------------------------------------------------------
(* Regular expressions (Python re syntax) as trees. *)

Inf == -1

\* [...] , \d , .
Cls(S) == [t |-> "cls", set |-> S]

\* x{lo,hi} ; x* is Rep(x, 0, Inf), x+ is Rep(x, 1, Inf), x? is Rep(x, 0, 1)
Rep(x, lo, hi) == [t |-> "rep", sub |-> x, lo |-> lo, hi |-> hi]

\* concatenation
Cat(xs) == [t |-> "cat", subs |-> xs]

\* x|y
Alt(xs) == [t |-> "alt", subs |-> xs]

\* ^
Bol == [t |-> "bol"]

\* $
Eol == [t |-> "eol"]

\* a literal character
Ch(c) == Cls({c})

\* . matches any character but a newline (no DOTALL flag)
Dot == Cls(Alphabet \ {NL})

\* \d, among the characters of Alphabet
D == Cls(Digits)

RECURSIVE Ends(_, _, _), CatEnds(_, _, _, _), RepEnds(_, _, _, _)

\* the positions a match of x can end at when it starts at a position of P
Ends(x, s, P) ==
    CASE x.t = "cls" -> {p + 1 : p \in {q \in P : q <= Len(s) /\ s[q] \in x.set}}
      [] x.t = "bol" -> {p \in P : p = 1}
      [] x.t = "eol" -> {p \in P : \/ p = Len(s) + 1
                                   \/ p = Len(s) /\ s[p] = NL}
      [] x.t = "cat" -> CatEnds(x.subs, 1, s, P)
      [] x.t = "alt" -> UNION {Ends(x.subs[i], s, P) : i \in DOMAIN x.subs}
      [] x.t = "rep" -> RepEnds(x, s, P, 0)

CatEnds(xs, i, s, P) ==
    IF i > Len(xs) \/ P = {} THEN P
    ELSE CatEnds(xs, i + 1, s, Ends(xs[i], s, P))

\* P: the positions reached after k repetitions of x.sub
RepEnds(x, s, P, k) ==
    IF P = {} THEN {}
    ELSE LET here == IF k >= x.lo THEN P ELSE {}
         IN  IF x.hi # Inf /\ k >= x.hi THEN here
             ELSE here \cup RepEnds(x, s, Ends(x.sub, s, P), k + 1)

\* re.compile(x).match(s) is not None
Match(x, s) == Ends(x, s, {1}) # {}

----------------------------------------------------------------------------
(* Error templates: str.format substitutes the named fields it finds.      *)

Text(str) == [k |-> "lit", text |-> str]

Field(name) == [k |-> "field", name |-> name]

Format(template, input, choices) ==
    [i \in DOMAIN template |->
        IF template[i].k = "field"
        THEN [k |-> "val",
              val |-> IF template[i].name = "input" THEN input ELSE choices]
        ELSE template[i]]

----------------------------------------------------------------------------
(* The validators: class, strategy and error template of each.            *)

\* a literal run of characters
Lit(cs) == Cat([i \in DOMAIN cs |-> Ch(cs[i])])

Nines == {"1", "2", "3", "4", "5", "6", "7", "8", "9"}

Hex == {"a", "b", "c", "d", "e", "f", "A", "B", "C", "D", "E", "F"} \cup Digits

IntEpoch ==
    [cls |-> "Range",
     min |-> Int2(0, 0),
     max |-> Int2(32767, 65535),
     error |-> <<Text("Value "), Field("input"),
                 Text(" is not a valid integer epoch time.")>>]

IndyDID ==
    [cls |-> "Regexp",
     regex |-> Cat(<<Bol, Rep(Cls(B58), 21, 22), Eol>>),
     error |-> <<Text("Value "), Field("input"),
                 Text(" is not an indy decentralized identifier (DID).")>>]

IndyDID_EXAMPLE ==
    <<"W", "g", "W", "x", "q", "z", "t", "r", "N", "o", "o", "G", "9", "2",
      "R", "X", "v", "x", "S", "T", "W", "v">>

IndyCredDefId ==
    [cls |-> "Regexp",
     regex |->
        Cat(<<Rep(Cls(B58), 21, 22),
              Lit(<<":", "3">>),
              Lit(<<":", "C", "L">>),
              Ch(":"),
              Alt(<<Cat(<<Cls(Nines), Rep(D, 0, Inf)>>),
                    Cat(<<Rep(Cls(B58), 21, 22), Lit(<<":", "2", ":">>),
                          Rep(Dot, 1, Inf), Ch(":"),
                          Rep(Cls(Digits \cup {"."}), 1, Inf)>>)>>),
              Rep(Rep(Dot, 1, Inf), 0, 1),
              Eol>>),
     error |-> <<Text("Value "), Field("input"),
                 Text(" is not an indy credential definition identifier.")>>]

IndyCredDefId_EXAMPLE ==
    IndyDID_EXAMPLE \o <<":", "3", ":", "C", "L", ":", "2", "0", ":", "t", "a", "g">>

IndyVersion ==
    [cls |-> "Regexp",
     regex |-> Cat(<<Bol, Rep(Cls(Digits \cup {"."}), 1, Inf), Eol>>),
     error |-> <<Text("Value "), Field("input"),
                 Text(" is not an indy version (use only digits and '.').")>>]

IndyVersion_EXAMPLE == <<"1", ".", "0">>

IndySchemaId ==
    [cls |-> "Regexp",
     regex |-> Cat(<<Bol, Rep(Cls(B58), 21, 22), Lit(<<":", "2", ":">>),
                     Rep(Dot, 1, Inf), Ch(":"),
                     Rep(Cls(Digits \cup {"."}), 1, Inf), Eol>>),
     error |-> <<Text("Value "), Field("input"),
                 Text(" is not an indy schema identifier.")>>]

IndySchemaId_EXAMPLE ==
    IndyDID_EXAMPLE \o <<":", "2", ":", "s", "c", "h", "e", "m", "a", "_",
                         "n", "a", "m", "e", ":", "1", ".", "0">>

\* IndyPredicate with an equality operator among the choices
IndyPredicateWithEquality ==
    [cls |-> "OneOf",
     choices |-> << <<"<">>, <<"<", "=">>, <<"=", "=">>, <<">", "=">>, <<">">> >>,
     error |-> <<Text("Value "), Field("input"), Text(" must be one of "),
                 Field("choices"), Text(".")>>]

IndyPredicate ==
    [cls |-> "OneOf",
     choices |-> << <<"<">>, <<"<", "=">>, <<">", "=">>, <<">">> >>,
     error |-> <<Text("Value "), Field("input"), Text(" must be one of "),
                 Field("choices"), Text(".")>>]

IndyPredicate_EXAMPLE == <<">", "=">>

IndyISO8601DateTime ==
    [cls |-> "Regexp",
     regex |->
        Cat(<<Bol, Rep(D, 4, 4), Ch("-"), Cat(<<D, D>>), Ch("-"), Cat(<<D, D>>),
              Cls({"T", " "}), Cat(<<D, D>>), Ch(":"), Cat(<<D, D>>),
              Rep(Cat(<<Ch(":"), D, D,
                        Rep(Cat(<<Ch("."), Rep(D, 1, 6)>>), 0, 1)>>), 0, 1),
              Alt(<<Cat(<<Cls({"+", "-"}), D, D, Rep(Ch(":"), 0, 1), D, D>>),
                    Ch("Z")>>),
              Eol>>),
     error |-> <<Text("Value "), Field("input"),
                 Text(" is not a date in valid format.")>>]

Base64 ==
    [cls |-> "Base64",
     regex |-> Cat(<<Bol, Rep(Cls(Lower \cup Upper \cup Digits \cup {"+", "/"}), 0, Inf),
                     Rep(Ch("="), 0, 2), Eol>>),
     error |-> <<Text("Value is not a valid base64 encoding")>>]

Base64_EXAMPLE == <<"e", "y", "4", "u", "L", "n", "0", "=">>

SHA256Hash ==
    [cls |-> "Regexp",
     regex |-> Cat(<<Bol, Rep(Cls(Hex \cup {"+", "/"}), 64, 64), Eol>>),
     error |-> <<Text("Value is not a valid (binhex-encoded) SHA-256 hash")>>]

SHA256Hash_EXAMPLE ==
    <<"6", "1", "7", "a", "4", "8", "c", "7", "c", "8", "a", "f", "e", "0", "5", "2",
      "1", "e", "f", "d", "c", "0", "3", "e", "5", "b", "b", "0", "a", "d", "9", "e",
      "6", "5", "5", "8", "9", "3", "e", "6", "b", "4", "b", "5", "1", "f", "0", "e",
      "7", "9", "4", "d", "7", "0", "f", "b", "a", "1", "3", "2", "a", "a", "c", "b">>

----------------------------------------------------------------------------
(* The examples taken from the clock when the module is loaded.           *)

\* int(datetime.now().timestamp())
IntEpoch_EXAMPLE(now) == now

DigitSeq == <<"0", "1", "2", "3", "4", "5", "6", "7", "8", "9">>

TwoDigits(n) == <<DigitSeq[((n \div 10) % 10) + 1], DigitSeq[(n % 10) + 1]>>

FourDigits(n) == TwoDigits(n \div 100) \o TwoDigits(n % 100)

\* the UTC time of an epoch, isoformat(" ") with "+00:00" written "Z"
epoch_to_str(e) ==
    LET q    == (e.hi * 512) + (e.lo \div 128)
        days == q \div 675
        sod  == ((q % 675) * 128) + (e.lo % 128)
        z    == days + 719468
        era  == z \div 146097
        doe  == z - (era * 146097)
        yoe  == (doe - (doe \div 1460) + (doe \div 36524) - (doe \div 146096)) \div 365
        doy  == doe - ((365 * yoe) + (yoe \div 4) - (yoe \div 100))
        mp   == ((5 * doy) + 2) \div 153
        d    == doy - (((153 * mp) + 2) \div 5) + 1
        m    == IF mp < 10 THEN mp + 3 ELSE mp - 9
        y    == yoe + (era * 400) + (IF m <= 2 THEN 1 ELSE 0)
    IN  FourDigits(y) \o <<"-">> \o TwoDigits(m) \o <<"-">> \o TwoDigits(d)
        \o <<" ">> \o TwoDigits(sod \div 3600) \o <<":">>
        \o TwoDigits((sod \div 60) % 60) \o <<":">> \o TwoDigits(sod % 60)
        \o <<"Z">>

IndyISO8601DateTime_EXAMPLE(now) == epoch_to_str(now)

----------------------------------------------------------------------------
(* The catalog, built once when the module is loaded at time now.         *)

Names == {"INT_EPOCH", "INDY_DID", "INDY_CRED_DEF_ID", "INDY_VERSION",
          "INDY_SCHEMA_ID", "INDY_PREDICATE", "INDY_ISO8601_DATETIME",
          "BASE64", "SHA256"}

Entry(v, e) == [validate |-> v, example |-> e]

Catalog(now) ==
    [n \in Names |->
        CASE n = "INT_EPOCH" -> Entry(IntEpoch, IntEpoch_EXAMPLE(now))
          [] n = "INDY_DID" -> Entry(IndyDID, IndyDID_EXAMPLE)
          [] n = "INDY_CRED_DEF_ID" -> Entry(IndyCredDefId, IndyCredDefId_EXAMPLE)
          [] n = "INDY_VERSION" -> Entry(IndyVersion, IndyVersion_EXAMPLE)
          [] n = "INDY_SCHEMA_ID" -> Entry(IndySchemaId, IndySchemaId_EXAMPLE)
          [] n = "INDY_PREDICATE" -> Entry(IndyPredicate, IndyPredicate_EXAMPLE)
          [] n = "INDY_ISO8601_DATETIME" ->
                Entry(IndyISO8601DateTime, IndyISO8601DateTime_EXAMPLE(now))
          [] n = "BASE64" -> Entry(Base64, Base64_EXAMPLE)
          [] n = "SHA256" -> Entry(SHA256Hash, SHA256Hash_EXAMPLE)]

----------------------------------------------------------------------------
(* The values the validators are called with.                              *)

Take(s, n) == SubSeq(s, 1, n)

Replace(s, i, c) == [s EXCEPT ![i] = c]

Delete(s, i) == SubSeq(s, 1, i - 1) \o SubSeq(s, i + 1, Len(s))

ProbeChars == {"0", "l", "g", "G", "+", "=", ":", ".", " ", NL}

\* s, and s with one character replaced, removed, added in front or behind
Variants(s) ==
    {s}
    \cup {Replace(s, i, c) : i \in DOMAIN s, c \in ProbeChars}
    \cup {Delete(s, i) : i \in DOMAIN s}
    \cup {s \o <<c>> : c \in ProbeChars}
    \cup {<<c>> \o s : c \in ProbeChars}

VariantsOf(S) == UNION {Variants(s) : s \in S} \cup {<< >>}

\* base58 strings of the lengths around 21 and 22
DIDBases ==
    {Take(IndyDID_EXAMPLE \o IndyDID_EXAMPLE, n) : n \in (21 - MaxExtra)..(22 + MaxExtra)}

CredDefTails ==
    {<<":", "3", ":", "C", "L", ":", "2", "0", ":", "t", "a", "g">>,
     <<":", "3", ":", "C", "L", ":", "2", "0">>,
     <<":", "3", ":", "C", "L", ":", "2", "0", ":">>,
     <<":", "3", ":", "C", "L", ":", "2", "0", "t", "a", "g">>,
     <<":", "3", ":", "X", "X", ":", "2", "0", ":", "t", "a", "g">>,
     <<":", "3", ":", ":", "2", "0", ":", "t", "a", "g">>,
     <<":", "3", ":", "C", "L", ":", ":", "t", "a", "g">>,
     <<":", "3", ":", "C", "L", ":", "t", "a", "g">>,
     <<":", "3", ":", "C", "L", ":", "0", "2", "0", ":", "t", "a", "g">>,
     <<":", "2", ":", "C", "L", ":", "2", "0", ":", "t", "a", "g">>,
     <<":", "3", ":", "C", "L", ":", "2", "0", ":", "a", "\n", "b">>}

CredDefSchemaTails ==
    {<<":", "t", "a", "g">>,
     <<>>,
     <<":">>,
     <<"t", "a", "g">>}

SchemaTails ==
    {<<":", "2", ":", "s", "c", "h", "e", "m", "a", "_", "n", "a", "m", "e", ":", "1", ".", "0">>,
     <<":", "2", ":", ":", "1", ".", "0">>,
     <<":", "2", ":", "a", ":", "b", ":", "1", ".", "0">>,
     <<":", "2", ":", "s", "c", "h", "e", "m", "a", "_", "n", "a", "m", "e", ":">>,
     <<":", "2", ":", "s", "c", "h", "e", "m", "a", "_", "n", "a", "m", "e", ":", "1", ".", "0", "a">>,
     <<":", "3", ":", "s", "c", "h", "e", "m", "a", "_", "n", "a", "m", "e", ":", "1", ".", "0">>,
     <<":", "2", ":", "s", "c", "h", "e", "m", "a", "_", "n", "a", "m", "e", "1", ".", "0">>,
     <<":", "2", ":", "a", "\n", "b", ":", "1", ".", "0">>}

VersionBases ==
    {<<"1", ".", "0">>,
     <<"1", ".", "2", ".", "3">>,
     <<"1", ".", "0", "-", "b", "e", "t", "a">>,
     <<".">>,
     <<"1">>}

PredicateBases ==
    {<<"<">>,
     <<"<", "=">>,
     <<">", "=">>,
     <<">">>,
     <<"=", "=">>,
     <<"=">>,
     <<" ", "<">>,
     <<"<", "=", " ">>,
     <<"=", ">">>,
     <<"=", "<">>,
     <<"<", ">">>}

DateTimeBases ==
    {<<"2", "0", "2", "1", "-", "0", "1", "-", "0", "1", "T", "0", "0", ":", "0", "0", ":", "0", "0", "Z">>,
     <<"2", "0", "2", "1", "-", "0", "1", "-", "0", "1", "T", "0", "0", ":", "0", "0", ":", "0", "0", ".", "1", "2", "3", "4", "5", "6", "+", "0", "5", ":", "3", "0">>,
     <<"2", "0", "2", "1", "-", "1", "3", "-", "0", "1", "T", "0", "0", ":", "0", "0", ":", "0", "0", "Z">>,
     <<"2", "0", "2", "1", "-", "0", "1", "-", "0", "1", "T", "0", "0", ":", "0", "0", ":", "0", "0">>,
     <<"2", "0", "2", "1", "-", "0", "1", "-", "0", "1", "T", "0", "0", ":", "0", "0", ":", "0", "0", ".", "1", "2", "3", "4", "5", "6", "7", "Z">>,
     <<"2", "0", "2", "1", "-", "0", "1", "-", "0", "1", " ", "0", "0", ":", "0", "0", ":", "0", "0", "-", "0", "5", "3", "0">>,
     <<"2", "0", "2", "1", "-", "0", "1", "-", "0", "1", "T", "0", "0", ":", "0", "0", "Z">>,
     <<"2", "0", "2", "1", "-", "0", "1", "-", "0", "1", "T", "0", "0", ":", "0", "0", ":", "0", "0", ".", "1", "Z">>,
     <<"2", "0", "2", "1", "-", "0", "1", "-", "0", "1", "T", "0", "0", ":", "0", "0", ":", "0", "0", ".", "Z">>,
     <<"2", "0", "2", "1", "-", "0", "1", "-", "0", "1", "T", "0", "0", ":", "0", "0", ".", "5", "Z">>}

Base64Bases ==
    {<<"a", "b">>,
     <<"e", "y", "4", "u", "L", "n", "0", "=">>,
     <<"a", "b", "c", "d">>,
     <<"a", "b", "=", "=">>,
     <<"a", "=", "=", "=">>,
     <<"=", "=", "=", "=">>,
     <<"a", "b", "=", "c">>,
     <<"a", "b", "c", "=">>,
     <<"a", "b", "c", "d", "e", "+", "/", "=">>}

SchemaBases ==
    {IndyDID_EXAMPLE \o tl : tl \in SchemaTails} \cup
    {d \o SubSeq(IndySchemaId_EXAMPLE, 23, Len(IndySchemaId_EXAMPLE)) : d \in DIDBases}

CredDefBases ==
    {IndyDID_EXAMPLE \o tl : tl \in CredDefTails} \cup
    {d \o SubSeq(IndyCredDefId_EXAMPLE, 23, Len(IndyCredDefId_EXAMPLE)) : d \in DIDBases} \cup
    {IndyDID_EXAMPLE \o <<":", "3", ":", "C", "L", ":">> \o sid \o tl :
        sid \in {IndySchemaId_EXAMPLE, IndyDID_EXAMPLE \o <<":", "2", ":", ":", "1">>},
        tl \in CredDefSchemaTails}

\* strings of the lengths around 64, in and out of the hash's character class
HashBases ==
    {Take(SHA256Hash_EXAMPLE \o SHA256Hash_EXAMPLE, n) : n \in (64 - MaxExtra)..(64 + MaxExtra)}
    \cup {Replace(Replace(SHA256Hash_EXAMPLE, 1, "+"), 64, "/")}

\* integers around 0, 2^16 and 2^31
EpochValues ==
    {Int2(h, l) : h \in {-1, 0, 1, 32767, 32768}, l \in {0, 1, 65534, 65535}}

\* the values validator n of catalog cat is called with
Pool(n, cat) ==
    {cat[n].example} \cup
    CASE n = "INT_EPOCH" -> EpochValues
      [] n = "INDY_DID" -> VariantsOf(DIDBases)
      [] n = "INDY_CRED_DEF_ID" -> VariantsOf(CredDefBases)
      [] n = "INDY_VERSION" -> VariantsOf(VersionBases)
      [] n = "INDY_SCHEMA_ID" -> VariantsOf(SchemaBases)
      [] n = "INDY_PREDICATE" -> VariantsOf(PredicateBases)
      [] n = "INDY_ISO8601_DATETIME" -> VariantsOf(DateTimeBases \cup {cat[n].example})
      [] n = "BASE64" -> VariantsOf(Base64Bases) \cup {None}
      [] n = "SHA256" -> VariantsOf(HashBases)

\* a value validator n rejects
Rejected(n) ==
    CASE n = "INT_EPOCH" -> Int2(-1, 65535)
      [] n = "BASE64" -> <<"a", "b">>
      [] OTHER -> <<"=", "=">>

\* the validators concurrent callers use: one of each class, the two with an
\* example taken from the clock, and one with a fixed message
RecheckNames == {"INT_EPOCH", "INDY_ISO8601_DATETIME", "INDY_PREDICATE",
                 "BASE64", "SHA256"}

\* the values concurrent callers check again and again
Recheck(n, cat) == {cat[n].example, Rejected(n)}

----------------------------------------------------------------------------
(* A call of a validator: the request, then its outcome.                   *)

IdleCall ==
    [st |-> "idle", name |-> "", value |-> << >>,
     ok |-> FALSE, msg |-> << >>, regex |-> FALSE]

Pending(n, v) ==
    [st |-> "pending", name |-> n, value |-> v,
     ok |-> FALSE, msg |-> << >>, regex |-> FALSE]

\* the call returns the value
Accept(regex) == [ok |-> TRUE, msg |-> << >>, regex |-> regex]

\* the call raises ValidationError(msg)
Raise(msg, regex) == [ok |-> FALSE, msg |-> msg, regex |-> regex]

Done(c, out) ==
    [st |-> "done", name |-> c.name, value |-> c.value,
     ok |-> out.ok, msg |-> out.msg, regex |-> out.regex]

\* ", ".join(str(choice) for choice in choices)
RECURSIVE choices_text(_)
choices_text(cs) ==
    IF Len(cs) = 0 THEN << >>
    ELSE IF Len(cs) = 1 THEN cs[1]
    ELSE cs[1] \o <<",", " ">> \o choices_text(Tail(cs))

\* Range.__call__ with the upper bound left out of the range
Range__call__Exclusive(self, value) ==
    IF IntLt(value, self.min) THEN Raise(Format(self.error, value, << >>), FALSE)
    ELSE IF ~IntLt(value, self.max) THEN Raise(Format(self.error, value, << >>), FALSE)
    ELSE Accept(FALSE)

\* marshmallow.validate.Range.__call__
Range__call__(self, value) ==
    IF IntLt(value, self.min) THEN Raise(Format(self.error, value, << >>), FALSE)
    ELSE IF IntLt(self.max, value) THEN Raise(Format(self.error, value, << >>), FALSE)
    ELSE Accept(FALSE)

\* Regexp.__call__ raising the template as it is, the way Base64.__call__ does
Regexp__call__Unformatted(self, value) ==
    IF ~Match(self.regex, value) THEN Raise(self.error, TRUE)
    ELSE Accept(TRUE)

\* marshmallow.validate.Regexp.__call__
Regexp__call__(self, value) ==
    IF ~Match(self.regex, value) THEN Raise(Format(self.error, value, << >>), TRUE)
    ELSE Accept(TRUE)

\* marshmallow.validate.OneOf.__call__
OneOf__call__(self, value) ==
    IF value \notin {self.choices[i] : i \in DOMAIN self.choices}
    THEN Raise(Format(self.error, value, choices_text(self.choices)), FALSE)
    ELSE Accept(FALSE)

\* Base64.__call__
Base64__call__(self, value) ==
    IF value = None \/ Len(value) % 4 # 0 THEN Raise(self.error, FALSE)
    ELSE Regexp__call__(self, value)

----------------------------------------------------------------------------
(* Actions. *)

\* caller c asks for a validation of one of the values checked repeatedly
Invoke(c) ==
    /\ call[c].st \in {"idle", "done"}
    /\ \E n \in RecheckNames : \E v \in Recheck(n, catalog) :
          call' = [call EXCEPT ![c] = Pending(n, v)]
    /\ UNCHANGED <<clock, catalog>>

RangeCall(c) ==
    /\ call[c].st = "pending"
    /\ catalog[call[c].name].validate.cls = "Range"
    /\ call' = [call EXCEPT ![c] =
                  Done(@, Range__call__(catalog[@.name].validate, @.value))]
    /\ UNCHANGED <<clock, catalog>>

RegexpCall(c) ==
    /\ call[c].st = "pending"
    /\ catalog[call[c].name].validate.cls = "Regexp"
    /\ call' = [call EXCEPT ![c] =
                  Done(@, Regexp__call__(catalog[@.name].validate, @.value))]
    /\ UNCHANGED <<clock, catalog>>

OneOfCall(c) ==
    /\ call[c].st = "pending"
    /\ catalog[call[c].name].validate.cls = "OneOf"
    /\ call' = [call EXCEPT ![c] =
                  Done(@, OneOf__call__(catalog[@.name].validate, @.value))]
    /\ UNCHANGED <<clock, catalog>>

\* Base64Call keeping the message of the last failure in the validator
Base64CallCaching(c) ==
    /\ call[c].st = "pending"
    /\ catalog[call[c].name].validate.cls = "Base64"
    /\ LET out == Base64__call__(catalog[call[c].name].validate, call[c].value)
       IN  /\ call' = [call EXCEPT ![c] = Done(@, out)]
           /\ catalog' = IF out.ok THEN catalog
                         ELSE [catalog EXCEPT ![call[c].name].validate.error =
                                  Format(@, call[c].value, << >>) \o <<Text("!")>>]
    /\ UNCHANGED clock

Base64Call(c) ==
    /\ call[c].st = "pending"
    /\ catalog[call[c].name].validate.cls = "Base64"
    /\ call' = [call EXCEPT ![c] =
                  Done(@, Base64__call__(catalog[@.name].validate, @.value))]
    /\ UNCHANGED <<clock, catalog>>

----------------------------------------------------------------------------
(* Specifications. *)

\* the times the module is loaded at: 2019-11-04, 2^31 - 1 and 2^31
ClockSamples == {Int2(24000, 34976), Int2(32767, 65535), Int2(32768, 0)}

\* the module is loaded, and one value is handed to one validator
Init ==
    /\ clock \in ClockSamples
    /\ catalog = Catalog(clock)
    /\ \E n \in Names : \E v \in Pool(n, Catalog(clock)) :
          call = [c \in Callers |-> IF c = 1 THEN Pending(n, v) ELSE IdleCall]

Next ==
    \E c \in Callers :
        \/ RangeCall(c)
        \/ RegexpCall(c)
        \/ OneOfCall(c)
        \/ Base64Call(c)

Spec == Init /\ [][Next]_vars

\* the module is loaded, and the callers validate concurrently, for ever
InitConc ==
    /\ clock \in ClockSamples
    /\ catalog = Catalog(clock)
    /\ call = [c \in Callers |-> IdleCall]

NextConc ==
    \E c \in Callers :
        \/ Invoke(c)
        \/ RangeCall(c)
        \/ RegexpCall(c)
        \/ OneOfCall(c)
        \/ Base64Call(c)

SpecConc == InitConc /\ [][NextConc]_vars

----------------------------------------------------------------------------
(* What the claims speak of.                                               *)

\* validate(value) of a catalog entry's validator
Validate(self, value) ==
    CASE self.cls = "Range" -> Range__call__(self, value)
      [] self.cls = "Regexp" -> Regexp__call__(self, value)
      [] self.cls = "OneOf" -> OneOf__call__(self, value)
      [] self.cls = "Base64" -> Base64__call__(self, value)

\* the callers whose validation by catalog entry n has returned or raised
DoneCalls(n) == {c \in Callers : call[c].st = "done" /\ call[c].name = n}

AllIn(s, S) == \A i \in DOMAIN s : s[i] \in S

EndsWith(s, c) == Len(s) > 0 /\ s[Len(s)] = c

\* the message carries value v as it was handed in
Embeds(msg, v) == \E i \in DOMAIN msg : msg[i].k = "val" /\ msg[i].val = v

\* the template has a substitution point for the rejected value
HasInputField(template) ==
    \E i \in DOMAIN template : template[i].k = "field" /\ template[i].name = "input"

\* the base58 alphabet as the specification words it
Base58Letters == (Digits \cup Lower \cup Upper) \ {"0", "O", "I", "l"}

IsDID(s) == Len(s) \in {21, 22} /\ AllIn(s, Base58Letters)

(* C1: the DID validator accepts a string if and only if it is 21 or 22
   characters long and made of base58 characters only. *)
C1_DIDExact ==
    \A c \in DoneCalls("INDY_DID") : call[c].ok <=> IsDID(call[c].value)

\* C1 holds of every value that does not end in a newline
C1_ExceptTrailingNewline ==
    \A c \in DoneCalls("INDY_DID") :
        ~EndsWith(call[c].value, NL) => (call[c].ok <=> IsDID(call[c].value))

Base64Letters == Lower \cup Upper \cup Digits \cup {"+", "/"}

\* zero or more base64 characters, then 0 to 2 '='
IsBase64Text(s) ==
    \E p \in 0..2 :
        /\ p <= Len(s)
        /\ AllIn(SubSeq(s, 1, Len(s) - p), Base64Letters)
        /\ AllIn(SubSeq(s, Len(s) - p + 1, Len(s)), {"="})

Base64Fixed == <<Text("Value is not a valid base64 encoding")>>

(* C2: the Base64 validator fails at once, with the fixed message and
   without consulting the grammar, on None and on a length that is not a
   multiple of 4; otherwise it accepts if and only if the whole string is
   base64 characters followed by 0 to 2 '='. *)
C2_Base64TwoStage ==
    \A c \in DoneCalls("BASE64") :
        LET v == call[c].value
        IN  IF v = None \/ Len(v) % 4 # 0
            THEN ~call[c].ok /\ call[c].msg = Base64Fixed /\ ~call[c].regex
            ELSE call[c].ok <=> IsBase64Text(v)

\* C2 holds of every value that does not end in a newline
C2_ExceptTrailingNewline ==
    \A c \in DoneCalls("BASE64") :
        LET v == call[c].value
        IN  IF v = None \/ Len(v) % 4 # 0
            THEN ~call[c].ok /\ call[c].msg = Base64Fixed /\ ~call[c].regex
            ELSE ~EndsWith(v, NL) => (call[c].ok <=> IsBase64Text(v))

IdentifierNames == {"INDY_DID", "INDY_SCHEMA_ID", "INDY_CRED_DEF_ID",
                    "INDY_VERSION", "INDY_ISO8601_DATETIME", "SHA256"}

HashFixed == <<Text("Value is not a valid (binhex-encoded) SHA-256 hash")>>

(* C3 as stated: every identifier validator (DID, schema id, credential
   definition id, version, datetime, SHA-256 hash) has an error template with
   a substitution point for the input, and a rejection carries the rejected
   value unchanged. *)
C3_AllEmbedInput ==
    \A n \in IdentifierNames : \A c \in DoneCalls(n) :
        ~call[c].ok =>
            /\ HasInputField(catalog[n].validate.error)
            /\ Embeds(call[c].msg, call[c].value)

(* C3 as amended: the DID, schema id, credential definition id, version and
   datetime validators reject with a message that embeds the rejected value
   unchanged; the SHA-256 hash validator rejects with a fixed message that
   does not embed it. *)
C3_EmbedInputButHash ==
    \A n \in IdentifierNames : \A c \in DoneCalls(n) :
        ~call[c].ok =>
            IF n = "SHA256"
            THEN /\ ~HasInputField(catalog[n].validate.error)
                 /\ call[c].msg = HashFixed
            ELSE /\ HasInputField(catalog[n].validate.error)
                 /\ Embeds(call[c].msg, call[c].value)
                 /\ Len(call[c].msg) = 3

C3_Witness ==
    \E c \in DoneCalls("INDY_CRED_DEF_ID") :
        ~call[c].ok /\ Embeds(call[c].msg, call[c].value) /\ Len(call[c].value) > 30

IsPositiveDecimal(s) == Len(s) >= 1 /\ AllIn(s, Digits) /\ s[1] # "0"

IsVersionText(s) == Len(s) >= 1 /\ AllIn(s, Digits \cup {"."})

\* <DID>:2:<non-empty text>:<digits and dots>
IsSchemaId(s) ==
    \E n \in {21, 22} :
        /\ Len(s) >= n + 6
        /\ IsDID(Take(s, n))
        /\ SubSeq(s, n + 1, n + 3) = <<":", "2", ":">>
        /\ \E j \in (n + 5)..(Len(s) - 1) :
              s[j] = ":" /\ IsVersionText(SubSeq(s, j + 1, Len(s)))

\* <DID>:3:CL:<schema reference>, then nothing or ':' and any tag
IsCredDefId(s) ==
    \E n \in {21, 22} :
        /\ Len(s) >= n + 7
        /\ IsDID(Take(s, n))
        /\ SubSeq(s, n + 1, n + 6) = <<":", "3", ":", "C", "L", ":">>
        /\ \E k \in (n + 7)..Len(s) :
              /\ k = Len(s) \/ s[k + 1] = ":"
              /\ LET ref == SubSeq(s, n + 7, k)
                 IN  IsPositiveDecimal(ref) \/ IsSchemaId(ref)

(* C4: the credential definition id validator accepts a string if and only
   if it is <DID>:3:CL:<schema reference>:<optional tag>, the reference a
   positive decimal number or a schema id. *)
C4_CredDefForm ==
    \A c \in DoneCalls("INDY_CRED_DEF_ID") :
        call[c].ok <=> IsCredDefId(call[c].value)

\* every string of the claimed form without a newline is accepted
C4_FormAccepted ==
    \A c \in DoneCalls("INDY_CRED_DEF_ID") :
        IsCredDefId(call[c].value) /\ NL \notin {call[c].value[i] : i \in DOMAIN call[c].value}
            => call[c].ok

\* 0 <= v <= 2147483647, on the halves (v \div 2 is in 0 .. 2^30 - 1)
InEpochRange(v) == ((v.hi * 32768) + (v.lo \div 2)) \in 0..1073741823

(* C5: the epoch validator accepts an integer if and only if it is in
   0 .. 2147483647, both ends included, and a rejection's message embeds
   the rejected value. *)
C5_EpochRange ==
    \A c \in DoneCalls("INT_EPOCH") :
        /\ call[c].ok <=> InEpochRange(call[c].value)
        /\ ~call[c].ok => Embeds(call[c].msg, call[c].value)

C5_Witness ==
    \E c \in DoneCalls("INT_EPOCH") :
        call[c].value = Int2(32768, 0) /\ ~call[c].ok

(* C6: the example of every catalog entry passes the validator of that
   entry, the two examples taken from the clock included. *)
C6_ExamplesPass ==
    \A n \in Names : Validate(catalog[n].validate, catalog[n].example).ok

\* the examples that are literals pass, whatever the clock
C6_LiteralExamplesPass ==
    \A n \in Names \ {"INT_EPOCH"} :
        Validate(catalog[n].validate, catalog[n].example).ok

\* two returned calls of one validator on one value have one outcome
SameOutcome ==
    \A c1, c2 \in Callers :
        (/\ call[c1].st = "done" /\ call[c2].st = "done"
         /\ call[c1].name = call[c2].name
         /\ call[c1].value = call[c2].value)
        => (call[c1].ok = call[c2].ok /\ call[c1].msg = call[c2].msg)

(* C7: validation is deterministic and stateless: whatever calls came
   before or run beside it, a value checked again has the same outcome, and
   no call changes a validator or a catalog entry. *)
C7_Stateless == [][catalog' = catalog /\ SameOutcome']_vars

C7_Witness ==
    \E c1, c2 \in Callers :
        /\ c1 # c2
        /\ call[c1].st = "done" /\ call[c2].st = "done"
        /\ call[c1].name = "BASE64" /\ call[c2].name = "BASE64"
        /\ call[c1].value = call[c2].value
        /\ ~call[c1].ok /\ ~call[c2].ok

PredicateOperators == { <<"<">>, <<"<", "=">>, <<">", "=">>, <<">">> }

\* "<, <=, >=, >"
PredicateList == <<"<", ",", " ", "<", "=", ",", " ", ">", "=", ",", " ", ">">>

(* C8: the predicate validator accepts a string if and only if it is one
   of "<", "<=", ">=", ">", and a rejection's message lists the four choices
   and the rejected value. *)
C8_PredicateExact ==
    \A c \in DoneCalls("INDY_PREDICATE") :
        /\ call[c].ok <=> call[c].value \in PredicateOperators
        /\ ~call[c].ok =>
              /\ Len(call[c].msg) = 5
              /\ call[c].msg[2] = [k |-> "val", val |-> call[c].value]
              /\ call[c].msg[4] = [k |-> "val", val |-> PredicateList]

C8_Witness ==
    \E c \in DoneCalls("INDY_PREDICATE") :
        call[c].value = <<"=", "=">> /\ ~call[c].ok

\* s[i..j] is digits only
DigitsAt(s, i, j) == AllIn(SubSeq(s, i, j), Digits)

\* nothing, :SS, or :SS. and 1 to 6 digits
IsSecondsText(s) ==
    \/ Len(s) = 0
    \/ Len(s) = 3 /\ s[1] = ":" /\ DigitsAt(s, 2, 3)
    \/ /\ Len(s) \in 5..10
       /\ s[1] = ":" /\ DigitsAt(s, 2, 3) /\ s[4] = "." /\ DigitsAt(s, 5, Len(s))

\* Z, or a sign and HH:MM or HHMM
IsZoneText(s) ==
    \/ s = <<"Z">>
    \/ Len(s) = 5 /\ s[1] \in {"+", "-"} /\ DigitsAt(s, 2, 5)
    \/ Len(s) = 6 /\ s[1] \in {"+", "-"} /\ DigitsAt(s, 2, 3) /\ s[4] = ":"
                  /\ DigitsAt(s, 5, 6)

IsDateTime(s) ==
    /\ Len(s) >= 17
    /\ DigitsAt(s, 1, 4) /\ s[5] = "-" /\ DigitsAt(s, 6, 7) /\ s[8] = "-"
    /\ DigitsAt(s, 9, 10) /\ s[11] \in {"T", " "}
    /\ DigitsAt(s, 12, 13) /\ s[14] = ":" /\ DigitsAt(s, 15, 16)
    /\ \E k \in 16..(Len(s) - 1) :
          IsSecondsText(SubSeq(s, 17, k)) /\ IsZoneText(SubSeq(s, k + 1, Len(s)))

(* C9: the datetime validator accepts a string if and only if the whole
   string is YYYY-MM-DD, 'T' or a space, HH:MM, optionally :SS or :SS and 1
   to 6 fractional digits, then 'Z' or a signed HH:MM or HHMM. *)
C9_DateTimeGrammar ==
    \A c \in DoneCalls("INDY_ISO8601_DATETIME") :
        call[c].ok <=> IsDateTime(call[c].value)

\* C9 holds of every value that does not end in a newline
C9_ExceptTrailingNewline ==
    \A c \in DoneCalls("INDY_ISO8601_DATETIME") :
        ~EndsWith(call[c].value, NL) => (call[c].ok <=> IsDateTime(call[c].value))

HashLetters == {"a", "b", "c", "d", "e", "f", "A", "B", "C", "D", "E", "F",
                "0", "1", "2", "3", "4", "5", "6", "7", "8", "9", "+", "/"}

(* C10: the SHA-256 validator accepts a string if and only if it is
   exactly 64 characters long, each of [a-fA-F0-9+/]. *)
C10_HashExact ==
    \A c \in DoneCalls("SHA256") :
        call[c].ok <=> (Len(call[c].value) = 64 /\ AllIn(call[c].value, HashLetters))

\* C10 holds of every value that does not end in a newline
C10_ExceptTrailingNewline ==
    \A c \in DoneCalls("SHA256") :
        ~EndsWith(call[c].value, NL) =>
            (call[c].ok <=> (Len(call[c].value) = 64 /\ AllIn(call[c].value, HashLetters)))

====
